---------------------------- MODULE Spec2Model ----------------------------
(***************************************************************************)
(* The TTS output pipeline of weather-rs: the AudioFormat table, the       *)
(* GoogleTts backend (synthesize, speak), the transcoder                   *)
(* (convert_audio_format, convert_to_raw_telephony, the sox subprocess),   *)
(* and the output dispatch (execute_tts_output, save_audio_file,           *)
(* play_audio).  One call runs at a time; each action is one step of the   *)
(* call chain, and the environment's answers (HTTP service, sox, file      *)
(* system, audio device) are chosen nondeterministically.                  *)
(*                                                                         *)
(* Specifications: Spec (the call chain), FairSpec (the same, scheduled),  *)
(* PipeSpec (the threads, sox and pipes of one transcoding call),          *)
(* AbbrevSpec (the abbreviation table of abbreviations.rs under            *)
(* concurrent callers), BinSpec (speak_with_google_tts of                  *)
(* bin/weather-speak.rs) and WeatherSpec (fetch_weather_data of lib.rs).   *)
(***************************************************************************)
EXTENDS Integers, Sequences, FiniteSets, TLC

(***************************************************************************)
(* Values                                                                  *)
(***************************************************************************)

\* tts/mod.rs: enum AudioFormat
AudioFormat == {"Mp3", "Wav", "Ogg", "Ulaw", "Alaw", "Gsm"}

\* Option<T>: None is the empty sequence, Some(x) the one-element sequence.
None == <<>>
Some(x) == <<x>>
IsSome(o) == Len(o) = 1
Unwrap(o) == o[1]

\* Result<T, TtsError>; an error carries its kind and its message, the
\* message being the sequence of the pieces format!() concatenates.
Ok(v) == [ok |-> TRUE, val |-> v, kind |-> "None", msg |-> <<>>]
Err(k, m) == [ok |-> FALSE, val |-> <<>>, kind |-> k, msg |-> m]

\* The unit value of Result<(), TtsError>.
Unit == <<>>

\* b"RIFF"
RIFF == <<82, 73, 70, 70>>

\* Longest engine payload after the container tag (bytes).
MaxPayload == 3

\* Byte values the environment draws payloads from: one below 128 and one
\* with the top bit set.
SampleBytes == {7, 200}

\* The field of the modelled container header holding the bits per sample.
BitsField == {8, 16}

RECURSIVE SeqsUpTo(_, _)
SeqsUpTo(S, n) ==
    IF n = 0 THEN {<<>>}
    ELSE LET shorter == SeqsUpTo(S, n - 1)
         IN  shorter \cup {Append(s, x) : s \in {t \in shorter : Len(t) = n - 1}, x \in S}

\* Buffers the environment (cloud service, sox) can hand back: raw bytes
\* without a container tag, a bare "RIFF" tag (truncated container), and
\* containers "RIFF" ++ <<bits>> ++ samples.
RawBuffers == SeqsUpTo(SampleBytes, MaxPayload - 1)
RiffBuffers ==
    {RIFF} \cup {RIFF \o <<b>> \o s : b \in BitsField, s \in SeqsUpTo(SampleBytes, MaxPayload - 1)}
EngineBuffers == RawBuffers \cup RiffBuffers

\* What sox can write to stdout (headerless telephony samples).
SoxOutputs == RawBuffers

\* Error texts of the operating system / libraries (the "{}" of e).
OsErrors == {"ENOENT", "EIO"}

\* Destination paths, as sequences of characters.
Paths == {<<"o", "u", "t">>, <<"o", ".", "x">>, <<"a">>}

(***************************************************************************)
(* AudioFormat property table (tts/mod.rs)                                 *)
(***************************************************************************)

telephony_sample_rate(f) ==
    IF f \in {"Ulaw", "Alaw", "Gsm"} THEN 8000 ELSE 22050

is_telephony_format(f) == f \in {"Ulaw", "Alaw", "Gsm"}

\* Mutant: the companded encodings get extensions of their own.
file_extension_by_encoding(f) ==
    CASE f = "Mp3" -> <<"m", "p", "3">>
      [] f = "Wav" -> <<"w", "a", "v">>
      [] f = "Ogg" -> <<"o", "g", "g">>
      [] f = "Ulaw" -> <<"u", "l">>
      [] f = "Alaw" -> <<"a", "l">>
      [] f = "Gsm" -> <<"g", "s", "m">>

file_extension(f) ==
    CASE f = "Mp3" -> <<"m", "p", "3">>
      [] f = "Wav" -> <<"w", "a", "v">>
      [] f = "Ogg" -> <<"o", "g", "g">>
      [] f = "Ulaw" -> <<"w", "a", "v">>
      [] f = "Alaw" -> <<"w", "a", "v">>
      [] f = "Gsm" -> <<"g", "s", "m">>

\* Mutant: whatever sits in a wav container is played.
supports_direct_playback_wav_container(f) == f \in {"Mp3", "Wav", "Ogg", "Ulaw", "Alaw"}

supports_direct_playback(f) == f \in {"Mp3", "Wav", "Ogg"}

\* impl fmt::Display for AudioFormat
Display(f) ==
    CASE f = "Mp3" -> "MP3"
      [] f = "Wav" -> "WAV"
      [] f = "Ogg" -> "OGG"
      [] f = "Ulaw" -> "ULAW"
      [] f = "Alaw" -> "ALAW"
      [] f = "Gsm" -> "GSM"

(***************************************************************************)
(* GoogleTts helpers (tts/google_tts.rs)                                   *)
(***************************************************************************)

audio_format_to_google_encoding(f) ==
    CASE f = "Mp3" -> Ok("MP3")
      [] f = "Wav" -> Ok("LINEAR16")
      [] f = "Ogg" -> Ok("OGG_OPUS")
      [] f = "Ulaw" -> Ok("MULAW")
      [] f = "Alaw" -> Ok("ALAW")
      [] f = "Gsm" -> Err("AudioConversionError",
                          <<"GSM format not directly supported by Google TTS. Use WAV and convert to GSM.">>)

\* Mutant: the dispatcher asks for a fixed format.
RequestedFormat_fixed(fmt) == "Mp3"

\* execute_tts_output, line 199: the format handed to synthesize.
RequestedFormat(fmt) == fmt

\* Mutant: speak uses the format the caller of execute_tts_output gave.
SpeakFormat_requested(fmt) == fmt

\* Mutant: speak asks for uncompressed audio.
SpeakFormat_wav(fmt) == "Wav"

\* GoogleTts::speak, lines 176-177: the format synthesized and played,
\* whatever audio_format the caller of execute_tts_output gave.
SpeakFormat(fmt) == "Mp3"

\* Mutant: the service is asked for the target format itself.
GoogleFormat_target(f) == f

\* synthesize, lines 111-115: the format asked of the service.
GoogleFormat(f) == IF is_telephony_format(f) THEN "Wav" ELSE f

\* Mutant: only Gsm is transcoded.
NeedsConversion_gsm_only(f) == f = "Gsm"

\* synthesize, lines 111-115: whether the service's bytes are transcoded.
NeedsConversion(f) == is_telephony_format(f)

\* synthesize, line 120: the rate is taken from google_format.
SampleRate(gf) == telephony_sample_rate(gf)

(***************************************************************************)
(* Transcoder helpers (tts/mod.rs, tts/audio_conversion.rs)                *)
(***************************************************************************)

\* Mutant: the same-format shortcut is missing.
SameFormat_never(from, to) == FALSE

\* std::mem::discriminant(from_format) == std::mem::discriminant(to_format)
SameFormat(from, to) == from = to

\* Mutant: the source format is not looked at.
HasTranscodingPath_any_source(from, to) == is_telephony_format(to)

\* convert_audio_format, line 148: the pairs with a conversion.
HasTranscodingPath(from, to) == from = "Wav" /\ is_telephony_format(to)

\* wav_data.starts_with(b"RIFF")
starts_with(data, prefix) ==
    /\ Len(data) >= Len(prefix)
    /\ SubSeq(data, 1, Len(prefix)) = prefix

\* hound's reading of an 8-bit sample: the stored unsigned byte u is the
\* signed sample u - 128.
SignedSample(u) == u - 128

\* `s as u8` for an i8 s.
AsU8(s) == (s + 256) % 256

\* Mutant: the payload bytes are returned as they are stored.
extract_raw_audio_from_wav_payload(wav_data, format_name) ==
    IF Len(wav_data) <= Len(RIFF) \/ wav_data[Len(RIFF) + 1] # 8
    THEN Err("AudioConversionError", <<"Failed to read WAV for ", format_name>>)
    ELSE Ok(SubSeq(wav_data, Len(RIFF) + 2, Len(wav_data)))

\* extract_raw_audio_from_wav: the container is parsed (a header must
\* follow the tag), the samples are read as i8 (only 8-bit samples are),
\* and each is cast to u8.
extract_raw_audio_from_wav(wav_data, format_name) ==
    IF Len(wav_data) <= Len(RIFF)
    THEN Err("AudioConversionError",
             <<"Failed to read WAV for ", format_name, " extraction: ", "hound">>)
    ELSE IF wav_data[Len(RIFF) + 1] # 8
    THEN Err("AudioConversionError",
             <<"Failed to extract ", format_name, " samples: ", "hound">>)
    ELSE LET n == Len(wav_data) - Len(RIFF) - 1
         IN  Ok([i \in 1..n |-> AsU8(SignedSample(wav_data[Len(RIFF) + 1 + i]))])

\* convert_to_raw_telephony, lines 109-113: the sox output selector and
\* the name used in messages, None for a non-telephony target.
SoxSelector(target) ==
    CASE target = "Ulaw" -> Some([sox_format |-> "ul", format_name |-> "mu-law"])
      [] target = "Alaw" -> Some([sox_format |-> "al", format_name |-> "A-law"])
      [] target = "Gsm" -> Some([sox_format |-> "gsm", format_name |-> "GSM"])
      [] OTHER -> None

\* Mutant: sox keeps the rate of the intermediate Wav.
SoxCommand_source_rate(sox_format) ==
    [tool |-> "sox", input |-> "wav", output |-> sox_format, rate |-> 22050, channels |-> 1]

\* convert_wav_to_telephony_format, lines 21-28: the command line.
SoxCommand(sox_format) ==
    [tool |-> "sox", input |-> "wav", output |-> sox_format, rate |-> 8000, channels |-> 1]

(***************************************************************************)
(* State                                                                   *)
(***************************************************************************)

VARIABLES
    pc,               \* the statement the running call is at ("idle": none)
    entry,            \* the public function the caller invoked
    output_path,      \* execute_tts_output: Option<String>
    audio_format,     \* execute_tts_output: &AudioFormat
    in_speak,         \* synthesize was called by GoogleTts::speak
    format,           \* synthesize: the format parameter
    google_format,    \* synthesize: local
    needs_conversion, \* synthesize: local
    audio_data,       \* the buffer in hand (decoded, or passed to a callee)
    from_format,      \* convert_audio_format: parameter
    to_format,        \* convert_audio_format / convert_to_raw_telephony: target
    sox,              \* Option of [sox_format, format_name] of the running conversion
    ret,              \* Option<Result>: what the innermost finished call returned
    outcome,          \* Option<Result>: what the entry call returned to its caller
    calls,            \* history: the functions entered and effects attempted, in order
    requests,         \* history: the audioConfig of every HTTP request sent
    spawns,           \* history: every subprocess spawn attempted (command line)
    files,            \* the file system: set of [path, data] written
    played,           \* history: every buffer appended to the audio sink
    device_opens,     \* history: number of OutputStream::try_default() calls
    response,         \* history: Option of what the HTTP exchange of synthesize met
    sox_output        \* history: Option of what wait_with_output met (status, stdout, stderr)

\* One run of convert_wav_to_telephony_format at the level of its threads,
\* the sox process and the three pipes between them (sizes in pipe units).
VARIABLES
    main_pc,          \* the calling thread: idle, spawned, wait_with_output, returned
    writer_pc,        \* the thread of lines 43-46: none, write_all, finished
    sox_pc,           \* the subprocess: none, running, exited
    wav_size,         \* length of wav_data
    wav_left,         \* part of wav_data_owned write_all has yet to write
    stdin_pipe,       \* units buffered in sox's stdin pipe
    stdout_pipe,      \* units buffered in sox's stdout pipe
    stderr_pipe,      \* units buffered in sox's stderr pipe
    sox_quota,        \* input units sox reads before it exits (-1: until end of file)
    sox_out,          \* stdout units sox must write before it does anything else
    sox_err,          \* stderr units sox must write before it does anything else
    err_budget,       \* diagnostics sox may still emit
    sox_written,      \* history: stdout units sox wrote
    output_stdout,    \* units of output.stdout collected by wait_with_output
    status,           \* sox's exit status: none, zero, nonzero
    pipe_result       \* what the call returned: none, Ok, Err, WaitErr (the wait failed)

\* Threads that call expand_abbreviations at the same time.
NThreads == 3
Threads == 1..NThreads

\* A line of abbreviations.txt (abbreviations.rs:8), by what lines 12-19
\* make of it: an entry "abbrev=expansion", or a line that is dropped (a
\* blank line, a comment, a line without "=").
EntryLine(abbrev, expansion) == [kind |-> "entry", abbrev |-> abbrev, expansion |-> expansion]
DroppedLine(kind) == [kind |-> kind, abbrev |-> "", expansion |-> ""]

\* The file: a comment, two entries, a blank line and a second entry for
\* the first key.
ABBREV_DATA ==
    <<DroppedLine("comment"), EntryLine("Intl", "International"), EntryLine("Rgnl", "Regional"),
      DroppedLine("blank"), EntryLine("Intl", "Intl.")>>

\* Lines 11-20, the filter_map closure: Some((abbrev, expansion)) for an
\* entry, None for a dropped line.
ParseLine(line) ==
    IF line.kind = "entry" THEN Some([abbrev |-> line.abbrev, expansion |-> line.expansion])
    ELSE None

\* HashMap::insert, as collect() applies it: a later entry replaces an
\* earlier one with the same key.
Insert(map, kv) == {e \in map : e.abbrev # kv.abbrev} \cup {kv}

\* The map collect() has built of the first n lines.
RECURSIVE Collected(_)
Collected(n) ==
    IF n = 0 THEN {}
    ELSE IF IsSome(ParseLine(ABBREV_DATA[n]))
         THEN Insert(Collected(n - 1), Unwrap(ParseLine(ABBREV_DATA[n])))
         ELSE Collected(n - 1)

\* The process-wide abbreviation table of abbreviations.rs and the threads
\* that call expand_abbreviations.
VARIABLES
    once,             \* state of the OnceLock: incomplete, running, complete
    cell,             \* the OnceLock's value: None, or Some(table)
    t_pc,             \* per thread: idle, get_or_init, closure, store, blocked, get, done
    line_no,          \* per thread: lines of ABBREV_DATA its closure has consumed
    building,         \* per thread: the map its closure's collect() has built so far
    abbrev_map,       \* per thread: Option of the table get_abbreviations returned
    inits             \* history: number of times the closure was entered

\* One run of speak_with_google_tts of the standalone binary
\* bin/weather-speak.rs.
VARIABLES
    ws_pc,            \* position: idle, send, output, done
    ws_format,        \* argument audio_format (the binary's own AudioFormat)
    ws_output_file,   \* argument output_file
    ws_requests,      \* history: audioEncoding of every request sent
    ws_response,      \* history: Option of what the HTTP exchange met
    ws_audio,         \* local audio_data
    ws_checked,       \* history: supports_playback() has been evaluated
    ws_files,         \* history: files written
    ws_device_opens,  \* history: number of OutputStream::try_default() calls
    ws_played,        \* history: buffers appended to the sink
    ws_result         \* Option of the returned Result

\* One call of fetch_weather_data of lib.rs.
VARIABLES
    wx_pc,            \* position: idle, send, is_empty, from_str, first, done
    wx_icao,          \* argument icao
    wx_body,          \* response_text
    wx_parsed,        \* history: Option of what serde_json::from_str returned
    wx_result         \* Option of the returned Result

binVars == <<ws_pc, ws_format, ws_output_file, ws_requests, ws_response, ws_audio,
             ws_checked, ws_files, ws_device_opens, ws_played, ws_result>>

wxVars == <<wx_pc, wx_icao, wx_body, wx_parsed, wx_result>>

progVars == <<pc, entry, output_path, audio_format, in_speak, format, google_format,
              needs_conversion, audio_data, from_format, to_format, sox, ret, outcome,
              calls, requests, spawns, files, played, device_opens, response,
              sox_output>>

pipeVars == <<main_pc, writer_pc, sox_pc, wav_size, wav_left, stdin_pipe, stdout_pipe,
              stderr_pipe, sox_quota, sox_out, sox_err, err_budget, sox_written,
              output_stdout, status, pipe_result>>

abbrVars == <<once, cell, t_pc, line_no, building, abbrev_map, inits>>

\* Everything outside the TTS library.
libVars == <<abbrVars, binVars, wxVars>>

vars == <<progVars, pipeVars, libVars>>

\* Variables of the synthesize frame.
synthVars == <<format, google_format, needs_conversion>>
\* Variables of the transcoder frames.
convVars == <<from_format, to_format, sox>>
\* Variables of the execute_tts_output frame.
execVars == <<entry, output_path, audio_format, in_speak>>
\* Effects outside the process.
worldVars == <<requests, spawns, files, played, device_opens>>
\* What the environment answered.
envVars == <<response, sox_output>>

Init ==
    /\ pc = "idle"
    /\ entry = "none"
    /\ output_path = None
    /\ audio_format = "Mp3"
    /\ in_speak = FALSE
    /\ format = "Mp3"
    /\ google_format = "Mp3"
    /\ needs_conversion = FALSE
    /\ audio_data = <<>>
    /\ from_format = "Wav"
    /\ to_format = "Wav"
    /\ sox = None
    /\ ret = None
    /\ outcome = None
    /\ calls = <<>>
    /\ requests = <<>>
    /\ spawns = <<>>
    /\ files = {}
    /\ played = <<>>
    /\ device_opens = 0
    /\ response = None
    /\ sox_output = None
    /\ main_pc = "idle"
    /\ writer_pc = "none"
    /\ sox_pc = "none"
    /\ wav_size = 0
    /\ wav_left = 0
    /\ stdin_pipe = 0
    /\ stdout_pipe = 0
    /\ stderr_pipe = 0
    /\ sox_quota = -1
    /\ sox_out = 0
    /\ sox_err = 0
    /\ err_budget = 0
    /\ sox_written = 0
    /\ output_stdout = 0
    /\ status = "none"
    /\ pipe_result = "none"
    /\ once = "incomplete"
    /\ cell = None
    /\ t_pc = [t \in Threads |-> "idle"]
    /\ line_no = [t \in Threads |-> 0]
    /\ building = [t \in Threads |-> {}]
    /\ abbrev_map = [t \in Threads |-> None]
    /\ inits = 0
    /\ ws_pc = "idle"
    /\ ws_format = "Mp3"
    /\ ws_output_file = None
    /\ ws_requests = <<>>
    /\ ws_response = None
    /\ ws_audio = <<>>
    /\ ws_checked = FALSE
    /\ ws_files = {}
    /\ ws_device_opens = 0
    /\ ws_played = <<>>
    /\ ws_result = None
    /\ wx_pc = "idle"
    /\ wx_icao = ""
    /\ wx_body = <<>>
    /\ wx_parsed = None
    /\ wx_result = None

(***************************************************************************)
(* Entry points                                                            *)
(***************************************************************************)

\* execute_tts_output(tts, announcement, output_path, audio_format), with
\* tts a GoogleTts: lines 198-203, up to the call it makes.
execute_tts_output(path, fmt) ==
    /\ pc = "idle"
    /\ UNCHANGED <<pipeVars, libVars, envVars>>
    /\ entry' = "execute_tts_output"
    /\ output_path' = path
    /\ audio_format' = fmt
    /\ calls' = Append(calls, "execute_tts_output")
    /\ IF IsSome(path)
       THEN /\ pc' = "synthesize"
            /\ format' = RequestedFormat(fmt)
       ELSE /\ pc' = "speak"
            /\ format' = format
    /\ UNCHANGED <<in_speak, google_format, needs_conversion, audio_data, convVars,
                   ret, outcome, worldVars>>

\* A direct call of TtsPlayer::convert_audio_format(audio_data, from, to).
call_convert_audio_format(data, from, to) ==
    /\ pc = "idle"
    /\ UNCHANGED <<pipeVars, libVars, envVars>>
    /\ entry' = "convert_audio_format"
    /\ audio_data' = data
    /\ from_format' = from
    /\ to_format' = to
    /\ pc' = "convert_audio_format"
    /\ UNCHANGED <<output_path, audio_format, in_speak, synthVars, sox, ret, outcome,
                   calls, worldVars>>

\* A direct call of audio_conversion::convert_to_raw_telephony(wav_data, target).
call_convert_to_raw_telephony(data, target) ==
    /\ pc = "idle"
    /\ UNCHANGED <<pipeVars, libVars, envVars>>
    /\ entry' = "convert_to_raw_telephony"
    /\ audio_data' = data
    /\ to_format' = target
    /\ pc' = "convert_to_raw_telephony"
    /\ UNCHANGED <<output_path, audio_format, in_speak, synthVars, from_format, sox,
                   ret, outcome, calls, worldVars>>

\* A direct call of GoogleTts::synthesize(text, target_format).
call_synthesize(fmt) ==
    /\ pc = "idle"
    /\ UNCHANGED <<pipeVars, libVars, envVars>>
    /\ entry' = "synthesize"
    /\ format' = fmt
    /\ pc' = "synthesize"
    /\ UNCHANGED <<output_path, audio_format, in_speak, google_format, needs_conversion,
                   audio_data, convVars, ret, outcome, calls, worldVars>>

(***************************************************************************)
(* GoogleTts                                                               *)
(***************************************************************************)

\* Mutant: speak opens the audio device before it synthesizes.
speak_opens_device_first ==
    /\ pc = "speak"
    /\ UNCHANGED <<pipeVars, libVars, envVars>>
    /\ in_speak' = TRUE
    /\ format' = SpeakFormat(audio_format)
    /\ calls' = Append(calls, "speak")
    /\ device_opens' = device_opens + 1
    /\ pc' = "synthesize"
    /\ UNCHANGED <<entry, output_path, audio_format, google_format, needs_conversion,
                   audio_data, convVars, ret, outcome, requests, spawns, files, played>>

\* GoogleTts::speak, line 176: synthesize(text, &AudioFormat::Mp3).
speak ==
    /\ pc = "speak"
    /\ UNCHANGED <<pipeVars, libVars, envVars>>
    /\ in_speak' = TRUE
    /\ format' = SpeakFormat(audio_format)
    /\ calls' = Append(calls, "speak")
    /\ pc' = "synthesize"
    /\ UNCHANGED <<entry, output_path, audio_format, google_format, needs_conversion,
                   audio_data, convVars, ret, outcome, worldVars>>

\* GoogleTts::synthesize, lines 109-134: choose the service format, look up
\* its encoding (an Err returns at once), build the request.
synthesize ==
    /\ pc = "synthesize"
    /\ UNCHANGED <<pipeVars, libVars, envVars>>
    /\ calls' = Append(calls, "synthesize")
    /\ google_format' = GoogleFormat(format)
    /\ needs_conversion' = NeedsConversion(format)
    /\ LET encoding == audio_format_to_google_encoding(GoogleFormat(format))
       IN  IF encoding.ok
           THEN /\ pc' = "send"
                /\ ret' = ret
           ELSE /\ pc' = "synthesize_ret"
                /\ ret' = Some(Err(encoding.kind, encoding.msg))
    /\ UNCHANGED <<execVars, format, audio_data, convVars, outcome, worldVars>>

\* The request body's audioConfig, lines 130-133.
AudioConfig ==
    [audio_encoding |-> audio_format_to_google_encoding(google_format).val,
     sample_rate_hertz |-> SampleRate(google_format)]

\* What an HTTP exchange can meet: the send fails; a non-success status,
\* with its body (None when the body cannot be read); a success status
\* whose body is no TtsResponse; an audioContent that is no base64; or
\* audioContent decoding to data.
Response(kind, body, err, data) == [kind |-> kind, body |-> body, err |-> err, data |-> data]

\* Bodies of a non-success response.
ErrorBodies == {None, Some("quota exceeded")}

\* Lines 149-151: response.text().unwrap_or_else(|_| "Unknown error").
ErrorText(body) == IF IsSome(body) THEN Unwrap(body) ELSE "Unknown error"

\* Mutant: the body is left out of the message.
ApiError_no_body(error_text) == <<"Google TTS API error">>

\* Lines 152-155: format!("Google TTS API error: {}", error_text).
ApiError(error_text) == <<"Google TTS API error: ", error_text>>

\* Mutant: the first failed exchange is tried again.
SynthesisFails_retry(msg) ==
    /\ IF requests = <<>>
       THEN /\ ret' = ret
            /\ pc' = "send"
       ELSE /\ ret' = Some(Err("SynthesisError", msg))
            /\ pc' = "synthesize_ret"
    /\ UNCHANGED <<audio_data, convVars>>

\* A failure of lines 142-164 returns a SynthesisError from synthesize.
SynthesisFails(msg) ==
    /\ ret' = Some(Err("SynthesisError", msg))
    /\ pc' = "synthesize_ret"
    /\ UNCHANGED <<audio_data, convVars>>

\* GoogleTts::synthesize, lines 136-172: one blocking HTTP exchange, the
\* response parsed and decoded, then the transcoder or the bytes as they are.
send ==
    /\ pc = "send"
    /\ UNCHANGED <<pipeVars, libVars>>
    /\ calls' = Append(calls, "send")
    /\ requests' = Append(requests, AudioConfig)
    /\ \/ \E e \in OsErrors :
            /\ response' = Some(Response("send_failed", None, e, <<>>))
            /\ SynthesisFails(<<"HTTP request failed: ", e>>)
       \/ \E body \in ErrorBodies :
            /\ response' = Some(Response("status_error", body, "", <<>>))
            /\ SynthesisFails(ApiError(ErrorText(body)))
       \/ \E e \in {"missing field audioContent"} :
            /\ response' = Some(Response("bad_json", None, e, <<>>))
            /\ SynthesisFails(<<"Failed to parse response: ", e>>)
       \/ \E e \in {"invalid base64"} :
            /\ response' = Some(Response("bad_base64", None, e, <<>>))
            /\ SynthesisFails(<<"Failed to decode audio: ", e>>)
       \/ \E data \in EngineBuffers :
            /\ response' = Some(Response("audio", None, "", data))
            /\ audio_data' = data
            /\ IF needs_conversion
               THEN /\ pc' = "convert_audio_format"
                    /\ from_format' = google_format
                    /\ to_format' = format
                    /\ ret' = ret
               ELSE /\ pc' = "synthesize_ret"
                    /\ ret' = Some(Ok(data))
                    /\ UNCHANGED <<from_format, to_format>>
            /\ sox' = sox
    /\ UNCHANGED <<execVars, synthVars, outcome, spawns, files, played, device_opens,
                   sox_output>>

\* Mutant: the error is wrapped anew on its way up.
Propagate_rewrapped(r) == Err("PlaybackError", <<"Speech failed: ">> \o r.msg)

\* The `?` on a Result<_, TtsError> inside a function returning
\* Result<_, TtsError> (mod.rs:199, google_tts.rs:176): the error is
\* returned as it is.
Propagate(r) == r

\* Mutant: synthesize plays what it produced before it returns.
AfterSynthesize_plays ==
    IF in_speak \/ entry = "synthesize" THEN "play_audio" ELSE "save_audio_file"

\* Where an Ok of synthesize leads: into play_audio when speak called it
\* (google_tts.rs:177), into save_audio_file when execute_tts_output did
\* (mod.rs:200), and nowhere but back to the caller of a direct call
\* (google_tts.rs:170-171).
AfterSynthesize ==
    IF entry = "synthesize" THEN "done"
    ELSE IF in_speak THEN "play_audio" ELSE "save_audio_file"

\* The return of synthesize to its caller: speak (lines 176-177: `?`, then
\* play_audio of the bytes as Mp3) or execute_tts_output (lines 199-200:
\* `?`, then save_audio_file).
synthesize_ret ==
    /\ pc = "synthesize_ret"
    /\ UNCHANGED <<pipeVars, libVars, envVars>>
    /\ IF Unwrap(ret).ok /\ entry = "synthesize"
       THEN /\ audio_data' = audio_data
            /\ pc' = AfterSynthesize
            /\ outcome' = ret
       ELSE IF Unwrap(ret).ok
       THEN /\ audio_data' = Unwrap(ret).val
            /\ pc' = AfterSynthesize
            /\ outcome' = outcome
       ELSE /\ audio_data' = audio_data
            /\ pc' = "done"
            /\ outcome' = Some(Propagate(Unwrap(ret)))
    /\ UNCHANGED <<execVars, synthVars, convVars, ret, calls, worldVars>>

(***************************************************************************)
(* Transcoder                                                              *)
(***************************************************************************)

\* Mutant: the transcoder reports its failures as synthesis failures.
ConversionFails_as_synthesis(msg) == Some(Err("SynthesisError", msg))

\* An error return of the transcoder.
ConversionFails(msg) == Some(Err("AudioConversionError", msg))

\* TtsPlayer::convert_audio_format, lines 136-156.
convert_audio_format ==
    /\ pc = "convert_audio_format"
    /\ UNCHANGED <<pipeVars, libVars, envVars>>
    /\ calls' = Append(calls, "convert_audio_format")
    /\ IF SameFormat(from_format, to_format)
       THEN /\ ret' = Some(Ok(audio_data))
            /\ pc' = "convert_ret"
       ELSE IF HasTranscodingPath(from_format, to_format)
       THEN /\ ret' = ret
            /\ pc' = "convert_to_raw_telephony"
       ELSE /\ ret' = ConversionFails(<<"Conversion from ", Display(from_format), " to ",
                                        Display(to_format), " is not yet supported">>)
            /\ pc' = "convert_ret"
    /\ UNCHANGED <<execVars, synthVars, audio_data, convVars, outcome, worldVars>>

\* audio_conversion::convert_to_raw_telephony, lines 98-119: a buffer that
\* starts with "RIFF" is extracted in process, any other goes to sox.
convert_to_raw_telephony ==
    /\ pc = "convert_to_raw_telephony"
    /\ UNCHANGED <<pipeVars, libVars, envVars>>
    /\ IF starts_with(audio_data, RIFF)
       THEN /\ calls' = Append(calls, "extract_raw_audio_from_wav")
            /\ ret' = Some(extract_raw_audio_from_wav(audio_data, Display(to_format)))
            /\ pc' = "convert_ret"
            /\ sox' = sox
       ELSE IF IsSome(SoxSelector(to_format))
       THEN /\ calls' = calls
            /\ ret' = ret
            /\ pc' = "spawn"
            /\ sox' = SoxSelector(to_format)
       ELSE /\ calls' = calls
            /\ ret' = ConversionFails(<<"Unsupported telephony format: ", Display(to_format)>>)
            /\ pc' = "convert_ret"
            /\ sox' = sox
    /\ UNCHANGED <<execVars, synthVars, audio_data, from_format, to_format, outcome,
                   worldVars>>

\* Mutant: a second tool is spawned when sox cannot be.
SpawnFailed_fallback(e) ==
    /\ ret' = ConversionFails(<<"Failed to spawn ", "sox", " or ", "ffmpeg", " for ",
                                Unwrap(sox).format_name, " conversion: ", e>>)
    /\ pc' = "convert_ret"
    /\ spawns' = spawns \o <<SoxCommand(Unwrap(sox).sox_format),
                              [SoxCommand(Unwrap(sox).sox_format) EXCEPT !.tool = "ffmpeg"]>>

\* What convert_wav_to_telephony_format does when Command::spawn fails
\* with e, lines 33-38: it returns the error.
SpawnFailed(e) ==
    /\ ret' = ConversionFails(<<"Failed to spawn ", "sox", " for ",
                                Unwrap(sox).format_name, " conversion: ", e>>)
    /\ pc' = "convert_ret"
    /\ spawns' = Append(spawns, SoxCommand(Unwrap(sox).sox_format))

\* convert_wav_to_telephony_format, lines 21-47: spawn sox with piped
\* stdin/stdout/stderr; on success hand the input to a writer thread.
spawn ==
    /\ pc = "spawn"
    /\ UNCHANGED <<pipeVars, libVars, envVars>>
    /\ calls' = Append(calls, "spawn")
    /\ \/ \E e \in OsErrors : SpawnFailed(e)
       \/ /\ spawns' = Append(spawns, SoxCommand(Unwrap(sox).sox_format))
          /\ pc' = "wait_with_output"
          /\ ret' = ret
    /\ UNCHANGED <<execVars, synthVars, audio_data, convVars, outcome, requests, files,
                   played, device_opens>>

\* std::process::Output as wait_with_output returns it.
Output(st, stdout, stderr) == [status |-> st, stdout |-> stdout, stderr |-> stderr]

\* What a sox that exits nonzero can have written to stdout before.
FailedOutputs == {stdout \in SoxOutputs : Len(stdout) <= 1}

\* What sox can have written to stderr.
StderrTexts == {"", "sox FAIL formats"}

\* Mutant: the exit status is not looked at.
SoxResult_status_ignored(output, format_name) == Ok(output.stdout)

\* convert_wav_to_telephony_format, lines 54-62: a nonzero status is an
\* error carrying stderr's text, status zero returns output.stdout.
SoxResult(output, format_name) ==
    IF output.status # "zero"
    THEN Err("AudioConversionError",
             <<"Sox ", format_name, " conversion failed: ", output.stderr>>)
    ELSE Ok(output.stdout)

\* convert_wav_to_telephony_format, lines 49-63: wait for sox; a wait
\* error or a nonzero exit status is an error (with stderr's text), exit
\* status zero returns all of stdout.
wait_with_output ==
    /\ pc = "wait_with_output"
    /\ UNCHANGED <<pipeVars, libVars, response>>
    /\ \/ \E e \in OsErrors :
            /\ sox_output' = Some(Output("wait_failed", <<>>, e))
            /\ ret' = ConversionFails(<<"Sox ", Unwrap(sox).format_name,
                                        " conversion failed: ", e>>)
       \/ \E st \in {"zero", "nonzero"}, stdout \in SoxOutputs, stderr \in StderrTexts :
            /\ st = "nonzero" => stdout \in FailedOutputs
            /\ sox_output' = Some(Output(st, stdout, stderr))
            /\ ret' = Some(SoxResult(Output(st, stdout, stderr), Unwrap(sox).format_name))
    /\ pc' = "convert_ret"
    /\ UNCHANGED <<execVars, synthVars, audio_data, convVars, outcome, calls, worldVars>>

\* The transcoder returns: to synthesize (line 168, whose result it is)
\* or to the caller of a direct call.
convert_ret ==
    /\ pc = "convert_ret"
    /\ UNCHANGED <<pipeVars, libVars, envVars>>
    /\ IF entry \in {"execute_tts_output", "synthesize"}
       THEN /\ pc' = "synthesize_ret"
            /\ outcome' = outcome
       ELSE /\ pc' = "done"
            /\ outcome' = ret
    /\ UNCHANGED <<execVars, synthVars, audio_data, convVars, ret, calls, worldVars>>

(***************************************************************************)
(* Output                                                                  *)
(***************************************************************************)

\* save_audio_file, line 125: the path written.
FilePath(path, fmt) == path

\* Mutant: a failed output step starts the synthesis over, once.
Finish_retry(r) ==
    IF ~r.ok /\ Len(requests) < 2
    THEN /\ outcome' = outcome
         /\ pc' = "synthesize"
    ELSE /\ outcome' = Some(IF r.ok THEN Ok(Unit) ELSE r)
         /\ pc' = "done"

\* The end of execute_tts_output: `?` on the callee's result, else Ok(()).
Finish(r) ==
    /\ outcome' = Some(IF r.ok THEN Ok(Unit) ELSE r)
    /\ pc' = "done"

\* TtsPlayer::save_audio_file, lines 120-132, and the return of
\* execute_tts_output, lines 200-205.
save_audio_file ==
    /\ pc = "save_audio_file"
    /\ UNCHANGED <<pipeVars, libVars, envVars>>
    /\ calls' = Append(calls, "save_audio_file")
    /\ LET file_path == FilePath(Unwrap(output_path), audio_format)
       IN  \/ /\ files' = files \cup {[path |-> file_path, data |-> audio_data]}
              /\ Finish(Ok(Unit))
           \/ \E e \in OsErrors :
                /\ files' = files
                /\ Finish(Err("FileError", <<"Failed to write ", file_path, ": ", e>>))
    /\ UNCHANGED <<execVars, synthVars, audio_data, convVars, ret, requests, spawns,
                   played, device_opens>>

\* TtsPlayer::play_audio(audio_data, &AudioFormat::Mp3) as GoogleTts::speak
\* calls it (line 177), lines 158-183, and the return of speak and of
\* execute_tts_output (lines 202-205).
play_audio ==
    /\ pc = "play_audio"
    /\ UNCHANGED <<pipeVars, libVars, envVars>>
    /\ calls' = Append(calls, "play_audio")
    /\ IF ~supports_direct_playback(format)
       THEN /\ Finish(Err("PlaybackError",
                          <<Display(format),
                            " format does not support direct playback. Use --output to save to file.">>))
            /\ UNCHANGED <<played, device_opens>>
       ELSE /\ device_opens' = device_opens + 1
            /\ \/ \E m \in {"Failed to create audio stream: ", "Failed to create audio sink: ",
                            "Failed to decode audio: "} :
                    /\ Finish(Err("PlaybackError", <<m, "rodio">>))
                    /\ played' = played
               \/ /\ played' = Append(played, [data |-> audio_data, format |-> format])
                  /\ Finish(Ok(Unit))
    /\ UNCHANGED <<execVars, synthVars, audio_data, convVars, ret, requests, spawns, files>>

(***************************************************************************)
(* Specification                                                           *)
(***************************************************************************)

Next ==
    \/ \E path \in {None} \cup {Some(p) : p \in Paths}, fmt \in AudioFormat :
         execute_tts_output(path, fmt)
    \/ \E data \in EngineBuffers, from \in AudioFormat, to \in AudioFormat :
         call_convert_audio_format(data, from, to)
    \/ \E data \in EngineBuffers, target \in AudioFormat :
         call_convert_to_raw_telephony(data, target)
    \/ \E fmt \in AudioFormat : call_synthesize(fmt)
    \/ speak
    \/ synthesize
    \/ send
    \/ synthesize_ret
    \/ convert_audio_format
    \/ convert_to_raw_telephony
    \/ spawn
    \/ wait_with_output
    \/ convert_ret
    \/ save_audio_file
    \/ play_audio

Spec == Init /\ [][Next]_vars

\* The steps of one execute_tts_output call.
ExecNext ==
    \/ \E path \in {None} \cup {Some(p) : p \in Paths}, fmt \in AudioFormat :
         execute_tts_output(path, fmt)
    \/ speak
    \/ synthesize
    \/ send
    \/ synthesize_ret
    \/ convert_audio_format
    \/ convert_to_raw_telephony
    \/ spawn
    \/ wait_with_output
    \/ convert_ret
    \/ save_audio_file
    \/ play_audio

\* The call chain is sequential code on one thread: a call that has been
\* entered keeps executing until it returns (the blocking calls in it, the
\* HTTP exchange, wait_with_output and sleep_until_end, return).
FairSpec == Init /\ [][ExecNext]_vars /\ WF_vars(ExecNext)

(***************************************************************************)
(* convert_wav_to_telephony_format: threads, subprocess and pipes          *)
(***************************************************************************)

\* Capacity of an OS pipe, in pipe units.
PipeCapacity == 1

\* Longest wav_data, in pipe units.
MaxInput == 4

\* Most diagnostics sox emits on stderr, in pipe units.
MaxStderr == 3

\* Mutant: the input is written before the output is read.
DrainEnabled_after_write == main_pc = "wait_with_output" /\ writer_pc = "finished"

\* Lines 41-50: write_all runs on its own thread, so the calling thread
\* is in wait_with_output, reading sox's output, as soon as the writer is
\* started.
DrainEnabled == main_pc = "wait_with_output"

\* Lines 21-38: Command::spawn; the child gets the pipes' far ends.  A
\* spawn failure returns the error.
pipe_spawn(n, quota, diag) ==
    /\ main_pc = "idle"
    /\ wav_size' = n
    /\ wav_left' = n
    /\ \/ /\ main_pc' = "spawned"
          /\ sox_pc' = "running"
          /\ sox_quota' = quota
          /\ err_budget' = diag
          /\ pipe_result' = pipe_result
       \/ /\ main_pc' = "returned"
          /\ pipe_result' = "Err"
          /\ UNCHANGED <<sox_pc, sox_quota, err_budget>>
    /\ UNCHANGED <<writer_pc, stdin_pipe, stdout_pipe, stderr_pipe, sox_out, sox_err,
                   sox_written, output_stdout, status, progVars, libVars>>

\* Lines 41-47: sox.stdin.take() and thread::spawn of the writer, which
\* owns stdin and a copy of the data.
start_writer ==
    /\ main_pc = "spawned"
    /\ writer_pc' = "write_all"
    /\ main_pc' = "wait_with_output"
    /\ UNCHANGED <<sox_pc, wav_size, wav_left, stdin_pipe, stdout_pipe, stderr_pipe,
                   sox_quota, sox_out, sox_err, err_budget, sox_written, output_stdout,
                   status, pipe_result, progVars, libVars>>

\* Line 45, stdin.write_all(&wav_data_owned): a write blocks while the
\* pipe is full, fails once sox has exited (the result is dropped by
\* `let _`), and the thread ends, closing stdin, when all is written.
writer_step ==
    /\ writer_pc = "write_all"
    /\ \/ /\ wav_left > 0
          /\ sox_pc = "running"
          /\ stdin_pipe < PipeCapacity
          /\ stdin_pipe' = stdin_pipe + 1
          /\ wav_left' = wav_left - 1
          /\ writer_pc' = writer_pc
       \/ /\ wav_left > 0
          /\ sox_pc = "exited"
          /\ writer_pc' = "finished"
          /\ UNCHANGED <<stdin_pipe, wav_left>>
       \/ /\ wav_left = 0
          /\ writer_pc' = "finished"
          /\ UNCHANGED <<stdin_pipe, wav_left>>
    /\ UNCHANGED <<main_pc, sox_pc, wav_size, stdout_pipe, stderr_pipe, sox_quota, sox_out,
                   sox_err, err_budget, sox_written, output_stdout, status, pipe_result,
                   progVars, libVars>>

\* sox reads a unit of input and owes the output (and diagnostics) it makes of it.
sox_read ==
    /\ sox_pc = "running"
    /\ sox_out = 0
    /\ sox_err = 0
    /\ sox_quota # 0
    /\ stdin_pipe > 0
    /\ stdin_pipe' = stdin_pipe - 1
    /\ sox_quota' = IF sox_quota > 0 THEN sox_quota - 1 ELSE sox_quota
    /\ \E o \in {0, 1} : sox_out' = o
    /\ \E d \in {0, 1} :
         /\ d <= err_budget
         /\ sox_err' = d
         /\ err_budget' = err_budget - d
    /\ UNCHANGED <<main_pc, writer_pc, sox_pc, wav_size, wav_left, stdout_pipe, stderr_pipe,
                   sox_written, output_stdout, status, pipe_result, progVars, libVars>>

\* sox writes to stdout; the write blocks while the pipe is full.
sox_write_stdout ==
    /\ sox_pc = "running"
    /\ sox_out > 0
    /\ stdout_pipe < PipeCapacity
    /\ stdout_pipe' = stdout_pipe + 1
    /\ sox_out' = sox_out - 1
    /\ sox_written' = sox_written + 1
    /\ UNCHANGED <<main_pc, writer_pc, sox_pc, wav_size, wav_left, stdin_pipe, stderr_pipe,
                   sox_quota, sox_err, err_budget, output_stdout, status, pipe_result,
                   progVars, libVars>>

\* sox writes to stderr; the write blocks while the pipe is full.
sox_write_stderr ==
    /\ sox_pc = "running"
    /\ sox_err > 0
    /\ stderr_pipe < PipeCapacity
    /\ stderr_pipe' = stderr_pipe + 1
    /\ sox_err' = sox_err - 1
    /\ UNCHANGED <<main_pc, writer_pc, sox_pc, wav_size, wav_left, stdin_pipe, stdout_pipe,
                   sox_quota, sox_out, err_budget, sox_written, output_stdout, status,
                   pipe_result, progVars, libVars>>

\* sox exits, with either status: at the end of its input (the pipe is
\* empty and the writer has closed it) or after reading its quota.
sox_exit ==
    /\ sox_pc = "running"
    /\ sox_out = 0
    /\ sox_err = 0
    /\ \/ sox_quota = 0
       \/ stdin_pipe = 0 /\ writer_pc = "finished"
    /\ sox_pc' = "exited"
    /\ \E st \in {"zero", "nonzero"} : status' = st
    /\ UNCHANGED <<main_pc, writer_pc, wav_size, wav_left, stdin_pipe, stdout_pipe,
                   stderr_pipe, sox_quota, sox_out, sox_err, err_budget, sox_written,
                   output_stdout, pipe_result, progVars, libVars>>

\* wait_with_output, line 50: stdout and stderr are read together, each
\* as data arrives.
read_stdout ==
    /\ DrainEnabled
    /\ stdout_pipe > 0
    /\ stdout_pipe' = stdout_pipe - 1
    /\ output_stdout' = output_stdout + 1
    /\ UNCHANGED <<main_pc, writer_pc, sox_pc, wav_size, wav_left, stdin_pipe, stderr_pipe,
                   sox_quota, sox_out, sox_err, err_budget, sox_written, status,
                   pipe_result, progVars, libVars>>

read_stderr ==
    /\ DrainEnabled
    /\ stderr_pipe > 0
    /\ stderr_pipe' = stderr_pipe - 1
    /\ UNCHANGED <<main_pc, writer_pc, sox_pc, wav_size, wav_left, stdin_pipe, stdout_pipe,
                   sox_quota, sox_out, sox_err, err_budget, sox_written, output_stdout,
                   status, pipe_result, progVars, libVars>>

\* Mutant: an input that was not delivered in full is an error.
ExitResult_checks_writer(st, undelivered) ==
    IF st = "zero" /\ undelivered = 0 THEN "Ok" ELSE "Err"

\* Lines 54-62 in the pipe model: the result is made of the exit status;
\* what the writer thread could not deliver is known to nobody (line 45,
\* `let _ =`, and the thread is never joined).
ExitResult(st, undelivered) == IF st = "zero" THEN "Ok" ELSE "Err"

\* wait_with_output returns at end of file on both pipes (sox has exited
\* and they are empty); lines 50-62: a wait error or a nonzero status is
\* an Err, status zero is Ok(output.stdout).
wait_returns ==
    /\ DrainEnabled
    /\ sox_pc = "exited"
    /\ stdout_pipe = 0
    /\ stderr_pipe = 0
    /\ main_pc' = "returned"
    /\ \/ pipe_result' = "WaitErr"
       \/ pipe_result' = ExitResult(status, wav_left)
    /\ UNCHANGED <<writer_pc, sox_pc, wav_size, wav_left, stdin_pipe, stdout_pipe,
                   stderr_pipe, sox_quota, sox_out, sox_err, err_budget, sox_written,
                   output_stdout, status, progVars, libVars>>

MainStep == start_writer \/ read_stdout \/ read_stderr \/ wait_returns

SoxStep == sox_read \/ sox_write_stdout \/ sox_write_stderr \/ sox_exit

PipeNext ==
    \/ \E n \in 0..MaxInput, quota \in -1..MaxInput, diag \in 0..MaxStderr :
         pipe_spawn(n, quota, diag)
    \/ start_writer
    \/ writer_step
    \/ sox_read
    \/ sox_write_stdout
    \/ sox_write_stderr
    \/ sox_exit
    \/ read_stdout
    \/ read_stderr
    \/ wait_returns

\* Every runnable thread and process is scheduled eventually: the calling
\* thread, the writer thread, and sox (which keeps reading and writing
\* until it exits).
PipeSpec ==
    /\ Init
    /\ [][PipeNext]_vars
    /\ WF_vars(MainStep)
    /\ WF_vars(writer_step)
    /\ WF_vars(SoxStep)

(***************************************************************************)
(* Abbreviation table                                                      *)
(***************************************************************************)

\* Mutant: a caller that finds the cell empty initializes it, also while
\* another caller's closure is running.
MayInitialize_unsynchronized == ~IsSome(cell)

\* OnceLock::get_or_init (line 7): the caller that finds the lock
\* incomplete runs the closure; std guarantees that only one does.
MayInitialize == once = "incomplete"

\* expand_abbreviations (line 27) is called on thread t.
expand_abbreviations(t) ==
    /\ t_pc[t] = "idle"
    /\ t_pc' = [t_pc EXCEPT ![t] = "get_or_init"]
    /\ UNCHANGED <<once, cell, line_no, building, abbrev_map, inits, progVars, pipeVars, binVars, wxVars>>

\* get_abbreviations, line 7: ABBREVIATIONS.get_or_init(..). A complete
\* lock gives its value; an incomplete one makes the caller the
\* initializer; a caller that finds the initializer running blocks.
get_or_init(t) ==
    /\ t_pc[t] = "get_or_init"
    /\ IF once = "complete"
       THEN /\ t_pc' = [t_pc EXCEPT ![t] = "get"]
            /\ UNCHANGED <<once, inits>>
       ELSE IF MayInitialize
       THEN /\ once' = "running"
            /\ inits' = inits + 1
            /\ t_pc' = [t_pc EXCEPT ![t] = "closure"]
       ELSE /\ t_pc' = [t_pc EXCEPT ![t] = "blocked"]
            /\ UNCHANGED <<once, inits>>
    /\ UNCHANGED <<cell, line_no, building, abbrev_map, progVars, pipeVars, binVars, wxVars>>

\* The closure, lines 8-22: one line of the file is parsed and, when it is
\* an entry, collected into the map under construction, which is local
\* to the closure.
closure_line(t) ==
    /\ t_pc[t] = "closure"
    /\ line_no[t] < Len(ABBREV_DATA)
    /\ line_no' = [line_no EXCEPT ![t] = line_no[t] + 1]
    /\ LET parsed == ParseLine(ABBREV_DATA[line_no[t] + 1])
       IN  building' = [building EXCEPT
                          ![t] = IF IsSome(parsed) THEN Insert(building[t], Unwrap(parsed))
                                 ELSE building[t]]
    /\ UNCHANGED <<once, cell, t_pc, abbrev_map, inits, progVars, pipeVars, binVars, wxVars>>

\* The closure returns the collected map.
closure_ret(t) ==
    /\ t_pc[t] = "closure"
    /\ line_no[t] = Len(ABBREV_DATA)
    /\ t_pc' = [t_pc EXCEPT ![t] = "store"]
    /\ UNCHANGED <<once, cell, line_no, building, abbrev_map, inits, progVars, pipeVars, binVars, wxVars>>

\* get_or_init stores the closure's value and completes the lock.
store(t) ==
    /\ t_pc[t] = "store"
    /\ cell' = Some(building[t])
    /\ once' = "complete"
    /\ t_pc' = [t_pc EXCEPT ![t] = "get"]
    /\ UNCHANGED <<line_no, building, abbrev_map, inits, progVars, pipeVars, binVars, wxVars>>

\* A blocked caller goes on when the lock is complete.
unblock(t) ==
    /\ t_pc[t] = "blocked"
    /\ once = "complete"
    /\ t_pc' = [t_pc EXCEPT ![t] = "get"]
    /\ UNCHANGED <<once, cell, line_no, building, abbrev_map, inits, progVars, pipeVars, binVars, wxVars>>

\* get_or_init returns the reference to the value; expand_abbreviations
\* (lines 27-59) does its lookups in it.
get(t) ==
    /\ t_pc[t] = "get"
    /\ abbrev_map' = [abbrev_map EXCEPT ![t] = cell]
    /\ t_pc' = [t_pc EXCEPT ![t] = "done"]
    /\ UNCHANGED <<once, cell, line_no, building, inits, progVars, pipeVars, binVars, wxVars>>

AbbrevNext ==
    \E t \in Threads :
        \/ expand_abbreviations(t)
        \/ get_or_init(t)
        \/ closure_line(t)
        \/ closure_ret(t)
        \/ store(t)
        \/ unblock(t)
        \/ get(t)

AbbrevSpec == Init /\ [][AbbrevNext]_vars

(***************************************************************************)
(* bin/weather-speak.rs: speak_with_google_tts                             *)
(***************************************************************************)

\* The binary's own enum AudioFormat, lines 59-71.
WsAudioFormat == {"Mp3", "Wav", "Ogg", "Mulaw", "Alaw"}

\* AudioFormat::google_encoding, lines 92-100.
google_encoding(f) ==
    CASE f = "Mp3" -> "MP3"
      [] f = "Wav" -> "LINEAR16"
      [] f = "Ogg" -> "OGG_OPUS"
      [] f = "Mulaw" -> "MULAW"
      [] f = "Alaw" -> "ALAW"

\* AudioFormat::file_extension of the binary, lines 102-110.
ws_file_extension(f) ==
    CASE f = "Mp3" -> <<"m", "p", "3">>
      [] f = "Wav" -> <<"w", "a", "v">>
      [] f = "Ogg" -> <<"o", "g", "g">>
      [] f = "Mulaw" -> <<"w", "a", "v">>
      [] f = "Alaw" -> <<"w", "a", "v">>

\* AudioFormat::supports_playback, lines 112-117.
supports_playback(f) == f \in {"Mp3", "Wav", "Ogg"}

\* Result<(), Box<dyn std::error::Error>>: Ok(()), or the error boxed by
\* `?` or `.into()`, by the library it comes from and its text.
WsOk == [ok |-> TRUE, source |-> "none", msg |-> <<>>]
BoxError(source, msg) == [ok |-> FALSE, source |-> source, msg |-> msg]

\* A return of speak_with_google_tts.
WsReturn(r) ==
    /\ ws_result' = Some(r)
    /\ ws_pc' = "done"

\* Mutant: a format that cannot be played is rejected before anything is
\* asked of the service.
speak_with_google_tts_checks_first(fmt, out) ==
    /\ ws_pc = "idle"
    /\ ws_format' = fmt
    /\ ws_output_file' = out
    /\ IF ~IsSome(out) /\ ~supports_playback(fmt)
       THEN /\ ws_checked' = TRUE
            /\ WsReturn(BoxError("playback", <<"Format does not support playback">>))
       ELSE /\ ws_pc' = "send"
            /\ UNCHANGED <<ws_checked, ws_result>>
    /\ UNCHANGED <<ws_requests, ws_response, ws_audio, ws_files, ws_device_opens,
                   ws_played, progVars, pipeVars, abbrVars, wxVars>>

\* speak_with_google_tts, lines 152-175: the request is built and the
\* client created.
speak_with_google_tts(fmt, out) ==
    /\ ws_pc = "idle"
    /\ ws_format' = fmt
    /\ ws_output_file' = out
    /\ ws_pc' = "send"
    /\ UNCHANGED <<ws_requests, ws_response, ws_audio, ws_checked, ws_files,
                   ws_device_opens, ws_played, ws_result, progVars, pipeVars, abbrVars,
                   wxVars>>

\* Lines 177-186: the HTTP exchange. Each failure returns at once through
\* `?` (send, text of an error response, json, base64 decode) or through
\* the return of line 181.
ws_send ==
    /\ ws_pc = "send"
    /\ ws_requests' = Append(ws_requests, google_encoding(ws_format))
    /\ \/ \E e \in OsErrors :
            /\ ws_response' = Some(Response("send_failed", None, e, <<>>))
            /\ WsReturn(BoxError("reqwest", <<e>>))
            /\ ws_audio' = ws_audio
       \/ \E body \in ErrorBodies :
            /\ ws_response' = Some(Response("status_error", body, "", <<>>))
            /\ IF IsSome(body)
               THEN WsReturn(BoxError("api", <<"Google TTS API error: ", Unwrap(body)>>))
               ELSE WsReturn(BoxError("reqwest", <<"error decoding response body">>))
            /\ ws_audio' = ws_audio
       \/ /\ ws_response' = Some(Response("bad_json", None, "missing field audioContent", <<>>))
          /\ WsReturn(BoxError("reqwest", <<"missing field audioContent">>))
          /\ ws_audio' = ws_audio
       \/ /\ ws_response' = Some(Response("bad_base64", None, "invalid base64", <<>>))
          /\ WsReturn(BoxError("base64", <<"invalid base64">>))
          /\ ws_audio' = ws_audio
       \/ \E data \in RawBuffers :
            /\ ws_response' = Some(Response("audio", None, "", data))
            /\ ws_audio' = data
            /\ ws_pc' = "output"
            /\ ws_result' = ws_result
    /\ UNCHANGED <<ws_format, ws_output_file, ws_checked, ws_files, ws_device_opens,
                   ws_played, progVars, pipeVars, abbrVars, wxVars>>

\* Lines 189-198, the Some(output_path) arm: the extension is appended to
\* a path without '.', and the file written.
ws_save ==
    /\ ws_pc = "output"
    /\ IsSome(ws_output_file)
    /\ LET out_path == Unwrap(ws_output_file)
           out_file == IF \E i \in 1..Len(out_path) : out_path[i] = "."
                       THEN out_path
                       ELSE out_path \o <<".">> \o ws_file_extension(ws_format)
       IN  \/ /\ ws_files' = ws_files \cup {[path |-> out_file, data |-> ws_audio]}
              /\ WsReturn(WsOk)
           \/ \E e \in OsErrors :
                /\ ws_files' = ws_files
                /\ WsReturn(BoxError("io", <<e>>))
    /\ UNCHANGED <<ws_format, ws_output_file, ws_requests, ws_response, ws_audio,
                   ws_checked, ws_device_opens, ws_played, progVars, pipeVars, abbrVars,
                   wxVars>>

\* Lines 199-215, the None arm: supports_playback() is looked at; a
\* playable format opens the device, appends the decoded buffer and waits
\* for its end, any other is rejected.
ws_play ==
    /\ ws_pc = "output"
    /\ ~IsSome(ws_output_file)
    /\ ws_checked' = TRUE
    /\ IF supports_playback(ws_format)
       THEN /\ ws_device_opens' = ws_device_opens + 1
            /\ \/ /\ ws_played' = Append(ws_played, ws_audio)
                  /\ WsReturn(WsOk)
               \/ /\ ws_played' = ws_played
                  /\ WsReturn(BoxError("rodio", <<"no device, no sink or no decoder">>))
       ELSE /\ WsReturn(BoxError("playback", <<"Format does not support playback">>))
            /\ UNCHANGED <<ws_device_opens, ws_played>>
    /\ UNCHANGED <<ws_format, ws_output_file, ws_requests, ws_response, ws_audio, ws_files,
                   progVars, pipeVars, abbrVars, wxVars>>

BinNext ==
    \/ \E fmt \in WsAudioFormat, out \in {None} \cup {Some(p) : p \in Paths} :
         speak_with_google_tts(fmt, out)
    \/ ws_send
    \/ ws_save
    \/ ws_play

BinSpec == Init /\ [][BinNext]_vars

(***************************************************************************)
(* lib.rs: fetch_weather_data                                              *)
(***************************************************************************)

\* Longest response body, in tokens.
MaxBody == 5

\* The tokens of a response body: brackets, comma, and two METAR objects.
BodyTokens == {"[", "]", ",", "m1", "m2"}

\* The bodies aviationweather.gov may answer with.
Bodies == SeqsUpTo(BodyTokens, MaxBody)

\* The ICAO codes asked for.
Icaos == {"krhv", "KSFO"}

\* str::to_uppercase.
to_uppercase(icao) == IF icao = "krhv" THEN "KRHV" ELSE icao

\* Result<MetarData, WeatherError>.
WxOk(metar) == [ok |-> TRUE, kind |-> "Ok", val |-> metar]
WxErr(kind, detail) == [ok |-> FALSE, kind |-> kind, val |-> detail]

\* serde_json::from_str::<Vec<MetarData>>, line 201: a JSON array of
\* METAR objects, separated by commas, gives the vector of its elements;
\* any other text is an error.
from_str(text) ==
    IF /\ Len(text) >= 2
       /\ text[1] = "["
       /\ text[Len(text)] = "]"
       /\ LET inner == SubSeq(text, 2, Len(text) - 1)
          IN  \/ inner = <<>>
              \/ /\ Len(inner) % 2 = 1
                 /\ \A i \in 1..Len(inner) :
                      IF i % 2 = 1 THEN inner[i] \in {"m1", "m2"} ELSE inner[i] = ","
    THEN LET inner == SubSeq(text, 2, Len(text) - 1)
         IN  Ok([i \in 1..((Len(inner) + 1) \div 2) |-> inner[2 * i - 1]])
    ELSE Err("serde_json", <<"expected value">>)

\* Mutant: the newest report, the last element, is returned.
first_takes_last(vec) == vec[Len(vec)]

\* Line 208: response.into_iter().next().unwrap().
first(vec) == vec[1]

\* A return of fetch_weather_data.
WxReturn(r) ==
    /\ wx_result' = Some(r)
    /\ wx_pc' = "done"

\* fetch_weather_data, lines 181-190: the URL and the client; a client
\* that cannot be built is an HttpClient error.
fetch_weather_data(icao) ==
    /\ wx_pc = "idle"
    /\ wx_icao' = icao
    /\ \/ /\ wx_pc' = "send"
          /\ wx_result' = wx_result
       \/ \E e \in OsErrors : WxReturn(WxErr("HttpClient", e))
    /\ UNCHANGED <<wx_body, wx_parsed, progVars, pipeVars, abbrVars, binVars>>

\* Lines 192-197: send() and text(); either failure is a Request error.
wx_send ==
    /\ wx_pc = "send"
    /\ \/ \E e \in OsErrors :
            /\ WxReturn(WxErr("Request", e))
            /\ wx_body' = wx_body
       \/ \E text \in Bodies :
            /\ wx_body' = text
            /\ wx_pc' = "is_empty"
            /\ wx_result' = wx_result
    /\ UNCHANGED <<wx_icao, wx_parsed, progVars, pipeVars, abbrVars, binVars>>

\* Lines 199-201: an empty body returns EmptyResponse(icao).
wx_is_empty ==
    /\ wx_pc = "is_empty"
    /\ IF wx_body = <<>>
       THEN WxReturn(WxErr("EmptyResponse", wx_icao))
       ELSE /\ wx_pc' = "from_str"
            /\ wx_result' = wx_result
    /\ UNCHANGED <<wx_icao, wx_body, wx_parsed, progVars, pipeVars, abbrVars, binVars>>

\* Lines 203-204: the body is parsed; a parse error returns InvalidJson.
wx_from_str ==
    /\ wx_pc = "from_str"
    /\ wx_parsed' = Some(from_str(wx_body))
    /\ IF from_str(wx_body).ok
       THEN /\ wx_pc' = "first"
            /\ wx_result' = wx_result
       ELSE WxReturn(WxErr("InvalidJson", from_str(wx_body).msg \o wx_body))
    /\ UNCHANGED <<wx_icao, wx_body, progVars, pipeVars, abbrVars, binVars>>

\* Lines 206-210: an empty vector returns NoData(icao.to_uppercase()),
\* any other its first element.
wx_first ==
    /\ wx_pc = "first"
    /\ LET vec == Unwrap(wx_parsed).val
       IN  IF vec = <<>>
           THEN WxReturn(WxErr("NoData", to_uppercase(wx_icao)))
           ELSE WxReturn(WxOk(first(vec)))
    /\ UNCHANGED <<wx_icao, wx_body, wx_parsed, progVars, pipeVars, abbrVars, binVars>>

WeatherNext ==
    \/ \E icao \in Icaos : fetch_weather_data(icao)
    \/ wx_send
    \/ wx_is_empty
    \/ wx_from_str
    \/ wx_first

WeatherSpec == Init /\ [][WeatherNext]_vars

(***************************************************************************)
(* Properties                                                              *)
(***************************************************************************)

Range(seq) == {seq[i] : i \in 1..Len(seq)}

Count(seq, x) == Cardinality({i \in 1..Len(seq) : seq[i] = x})

\* The first position of x in seq (0 when absent).
FirstIndex(seq, x) ==
    IF x \in Range(seq) THEN CHOOSE i \in 1..Len(seq) : seq[i] = x /\ \A j \in 1..(i - 1) : seq[j] # x
    ELSE 0

\* output_path.contains('.')
contains(path, ch) == \E i \in 1..Len(path) : path[i] = ch

\* The running call is execute_tts_output with a destination path.
FileRun == entry = "execute_tts_output" /\ IsSome(output_path)

\* The running call is execute_tts_output without a destination path.
PlayRun == entry = "execute_tts_output" /\ ~IsSome(output_path)

\* The running call has returned.
Returned == pc = "done" /\ IsSome(outcome)

\* C1: with a destination path, execute_tts_output calls synthesize with
\* the requested format, the file holds exactly the bytes synthesize
\* returned, a successful run has written that one file, and neither speak
\* nor play_audio is called (no device opened, nothing played).
C1_FileOutputVerbatim ==
    FileRun =>
        /\ "speak" \notin Range(calls)
        /\ "play_audio" \notin Range(calls)
        /\ played = <<>>
        /\ device_opens = 0
        /\ ("synthesize" \in Range(calls) => format = audio_format)
        /\ \A f \in files : IsSome(ret) /\ Unwrap(ret).ok /\ f.data = Unwrap(ret).val
        /\ (Returned /\ Unwrap(outcome).ok => Cardinality(files) = 1)

\* C1 witness: a file run for a telephony target returned Ok after writing
\* a non-empty buffer.
C1_Witness ==
    /\ FileRun
    /\ Returned
    /\ Unwrap(outcome).ok
    /\ audio_format = "Gsm"
    /\ \E f \in files : Len(f.data) > 0

\* C2 (as claimed): without a destination path and with a format that has
\* no direct playback, execute_tts_output ends in PlaybackError and plays
\* nothing.
C2_UnplayableFormatRejected ==
    (PlayRun /\ Returned /\ ~supports_direct_playback(audio_format)) =>
        /\ ~Unwrap(outcome).ok
        /\ Unwrap(outcome).kind = "PlaybackError"
        /\ played = <<>>

\* The path the claim C3 expects to be written.
ResolvedPath(path, fmt) ==
    IF contains(path, ".") THEN path ELSE path \o <<".">> \o file_extension(fmt)

\* C3 (as claimed): the file written is the destination path with the
\* format's extension appended when the path holds no ".", and the path
\* itself otherwise.
C3_ExtensionAppended ==
    FileRun => \A f \in files : f.path = ResolvedPath(Unwrap(output_path), audio_format)

\* C4 (as claimed): for the formats the cloud backend emits natively (Mp3,
\* Wav, Ogg, Ulaw, Alaw), synthesize asks the service for that format's own
\* encoding, never calls convert_audio_format, and returns the service's
\* bytes.
C4_NativeFormatsNotTranscoded ==
    (FileRun /\ audio_format \in {"Mp3", "Wav", "Ogg", "Ulaw", "Alaw"}) =>
        /\ \A i \in 1..Len(requests) :
             requests[i].audio_encoding = audio_format_to_google_encoding(audio_format).val
        /\ "convert_audio_format" \notin Range(calls)
        /\ (pc = "synthesize_ret" /\ Unwrap(ret).ok => Unwrap(ret).val = audio_data)

\* The transcoding paths entered so far: in-process extraction and sox.
PathsInvoked ==
    Count(calls, "extract_raw_audio_from_wav") + Count(calls, "spawn")

\* C5: for a telephony target, synthesize asks the service for Wav
\* (LINEAR16) and, once the service has delivered the buffer, has entered
\* exactly one transcoding path (extraction or sox, after the request) by
\* the time it returns; it enters none only when the service failed.
C5_OneTranscodingPath ==
    (entry = "execute_tts_output" /\ "synthesize" \in Range(calls)
       /\ is_telephony_format(format)) =>
        /\ \A i \in 1..Len(requests) : requests[i].audio_encoding = "LINEAR16"
        /\ PathsInvoked <= 1
        /\ (PathsInvoked = 1 =>
              /\ FirstIndex(calls, "send") > 0
              /\ FirstIndex(calls, "send") < FirstIndex(calls, "convert_audio_format"))
        /\ (pc = "synthesize_ret" =>
              \/ PathsInvoked = 1
              \/ /\ PathsInvoked = 0
                 /\ ~Unwrap(ret).ok
                 /\ Unwrap(ret).kind = "SynthesisError"
                 /\ Len(requests) = 1)

\* C5 witness: synthesize for Ulaw is returning Ok after the sox path
\* (and not the extraction path) ran.
C5_Witness ==
    /\ pc = "synthesize_ret"
    /\ entry = "execute_tts_output"
    /\ format = "Ulaw"
    /\ Count(calls, "spawn") = 1
    /\ Count(calls, "extract_raw_audio_from_wav") = 0
    /\ Unwrap(ret).ok

\* C6 (as claimed): for a telephony target the intermediate Wav is
\* requested at 8000 Hz, and 22050 Hz is requested only for other targets.
C6_TelephonyRate ==
    entry = "execute_tts_output" =>
        \A i \in 1..Len(requests) :
            /\ is_telephony_format(format) => requests[i].sample_rate_hertz = 8000
            /\ requests[i].sample_rate_hertz = 22050 => ~is_telephony_format(format)

\* C7: convert_audio_format with equal formats returns Ok with the input
\* bytes, never reaches the parser or a subprocess.
C7_SameFormatIdentity ==
    (entry = "convert_audio_format" /\ from_format = to_format) =>
        /\ pc \in {"convert_audio_format", "convert_ret", "done"}
        /\ spawns = <<>>
        /\ "extract_raw_audio_from_wav" \notin Range(calls)
        /\ "spawn" \notin Range(calls)
        /\ (pc \in {"convert_ret", "done"} => ret = Some(Ok(audio_data)))
        /\ (Returned => outcome = Some(Ok(audio_data)))

\* C7 witness: a Gsm to Gsm call on a "RIFF" buffer has returned.
C7_Witness ==
    /\ entry = "convert_audio_format"
    /\ from_format = "Gsm"
    /\ to_format = "Gsm"
    /\ Returned
    /\ starts_with(audio_data, RIFF)
    /\ Len(audio_data) > Len(RIFF)

\* C8: convert_audio_format on distinct formats other than Wav to a
\* telephony format fails with an AudioConversionError whose message names
\* both formats, without a subprocess or the parser.
C8_UnsupportedPairFails ==
    (entry = "convert_audio_format" /\ from_format # to_format
       /\ ~(from_format = "Wav" /\ to_format \in {"Ulaw", "Alaw", "Gsm"})) =>
        /\ pc \in {"convert_audio_format", "convert_ret", "done"}
        /\ spawns = <<>>
        /\ "extract_raw_audio_from_wav" \notin Range(calls)
        /\ (Returned =>
              /\ ~Unwrap(outcome).ok
              /\ Unwrap(outcome).kind = "AudioConversionError"
              /\ Display(from_format) \in Range(Unwrap(outcome).msg)
              /\ Display(to_format) \in Range(Unwrap(outcome).msg))

\* C8 witness: an Mp3 to Ulaw call has returned.
C8_Witness ==
    /\ entry = "convert_audio_format"
    /\ from_format = "Mp3"
    /\ to_format = "Ulaw"
    /\ Returned

\* A spawn failure has been returned by convert_wav_to_telephony_format.
SpawnFailureReturned ==
    /\ IsSome(ret)
    /\ ~Unwrap(ret).ok
    /\ Len(Unwrap(ret).msg) > 0
    /\ Unwrap(ret).msg[1] = "Failed to spawn "

C10_TranscodingReturns == (main_pc # "idle") ~> (main_pc = "returned")

\* C10 witness: a call returned Ok after an input larger than the two
\* pipes and sox can hold together and an output larger than a pipe (the
\* sizes at which writing everything before reading blocks), sox having
\* read to the end of its input.
C10_Witness ==
    /\ main_pc = "returned"
    /\ pipe_result = "Ok"
    /\ wav_size > 2 * PipeCapacity + 1
    /\ output_stdout > PipeCapacity + 1
    /\ sox_quota < 0

\* wait_with_output has handed sox's exit status, stdout and stderr over.
SoxExited == IsSome(sox_output) /\ Unwrap(sox_output).status # "wait_failed"

\* C11: once sox has exited, a nonzero status makes the call's result an
\* AudioConversionError whose message embeds stderr's text and that
\* carries none of stdout's bytes; status zero makes it Ok with the whole
\* of stdout. A direct call returns exactly that result.
C11_ExitStatusDecides ==
    SoxExited =>
        LET output == Unwrap(sox_output)
        IN  /\ IsSome(ret)
            /\ (output.status = "nonzero" =>
                  /\ ~Unwrap(ret).ok
                  /\ Unwrap(ret).kind = "AudioConversionError"
                  /\ output.stderr \in Range(Unwrap(ret).msg)
                  /\ Unwrap(ret).val = <<>>)
            /\ (output.status = "zero" => ret = Some(Ok(output.stdout)))
            /\ (Returned /\ entry # "execute_tts_output" => outcome = ret)

\* C11 witness: sox exited nonzero after writing bytes to stdout and a
\* diagnostic to stderr, and the direct call has returned.
C11_Witness ==
    /\ SoxExited
    /\ Unwrap(sox_output).status = "nonzero"
    /\ Len(Unwrap(sox_output).stdout) > 0
    /\ Unwrap(sox_output).stderr # ""
    /\ entry = "convert_to_raw_telephony"
    /\ Returned

\* synthesize (its transcoding stage included) has failed inside
\* execute_tts_output.
SynthesizeFailed ==
    /\ entry = "execute_tts_output"
    /\ IsSome(ret)
    /\ ~Unwrap(ret).ok

\* C12: when synthesize or its transcoding stage fails inside
\* execute_tts_output, no file is written, save_audio_file and play_audio
\* are never called, no device is opened, nothing is played, and the error
\* execute_tts_output returns is that same error, kind and message.
C12_FailureLeavesNoOutput ==
    SynthesizeFailed =>
        /\ files = {}
        /\ played = <<>>
        /\ device_opens = 0
        /\ "save_audio_file" \notin Range(calls)
        /\ "play_audio" \notin Range(calls)
        /\ pc \in {"synthesize_ret", "convert_ret", "done"}
        /\ (pc = "done" =>
              /\ IsSome(outcome)
              /\ ~Unwrap(outcome).ok
              /\ Unwrap(outcome).kind = Unwrap(ret).kind
              /\ Unwrap(outcome).msg = Unwrap(ret).msg)

\* C12 witness: a file run whose transcoding stage failed (sox exited
\* nonzero) has returned.
C12_Witness ==
    /\ SynthesizeFailed
    /\ FileRun
    /\ Returned
    /\ Unwrap(ret).kind = "AudioConversionError"
    /\ SoxExited

\* The state of execute_tts_output's state machine the call is in. The
\* branch taken by `if let Some(path)` is WritingFile (synthesize, then
\* save_audio_file) or CheckingPlaybackSupport (speak: synthesize, then
\* play_audio); Playing and Rejected are passed inside play_audio.
Stage ==
    IF pc = "idle" THEN "AwaitingDestinationDecision"
    ELSE IF pc = "done" THEN (IF Unwrap(outcome).ok THEN "Done" ELSE "Error")
    ELSE IF IsSome(output_path) THEN "WritingFile"
    ELSE "CheckingPlaybackSupport"

\* The moves of the state machine; Playing is passed when a device was
\* opened, Rejected when play_audio returned without opening one.
StageStep ==
    entry' = "execute_tts_output" =>
        \/ Stage = "AwaitingDestinationDecision"
             /\ Stage' \in {"WritingFile", "CheckingPlaybackSupport"}
        \/ Stage = "WritingFile" /\ Stage' \in {"WritingFile", "Done", "Error"}
        \/ Stage = "CheckingPlaybackSupport" /\ Stage' = "CheckingPlaybackSupport"
        \/ /\ Stage = "CheckingPlaybackSupport"
           /\ Stage' = "Done"
           /\ device_opens' = device_opens + 1
           /\ Len(played') = Len(played) + 1
        \/ /\ Stage = "CheckingPlaybackSupport"
           /\ Stage' = "Error"
           /\ played' = played

\* No step of the call is taken twice, and a successful run has done
\* exactly one terminal action: one file written or one buffer played.
OneTerminalAction ==
    entry = "execute_tts_output" =>
        /\ \A c \in Range(calls) : Count(calls, c) = 1
        /\ Cardinality(files) + Len(played) <= 1
        /\ (Returned /\ Unwrap(outcome).ok => Cardinality(files) + Len(played) = 1)
        /\ (FileRun => played = <<>>)
        /\ (PlayRun => files = {})

\* C13: every execute_tts_output call moves along AwaitingDestinationDecision
\* -> (WritingFile | CheckingPlaybackSupport -> Playing | Rejected) ->
\* Done/Error, enters no state twice, does exactly one terminal action
\* when it succeeds (a file write or a playback, never both), and
\* eventually reaches a terminal state.
C13_StateMachine ==
    /\ [][StageStep]_vars
    /\ []OneTerminalAction
    /\ (entry = "execute_tts_output") ~> (pc = "done" /\ IsSome(outcome))

\* C13 witness: a run without a destination has played one buffer and
\* returned Ok.
C13_Witness ==
    /\ PlayRun
    /\ Returned
    /\ Unwrap(outcome).ok
    /\ Len(played) = 1
    /\ files = {}

\* A callee of the running call has failed.
Failed == IsSome(ret) /\ ~Unwrap(ret).ok

\* C14: a call makes at most one request to the service and spawns at
\* most one subprocess; once a step has failed nothing is attempted again
\* (the call is on its way back) and the error is what the caller gets.
C14_SingleAttempt ==
    /\ Len(requests) <= 1
    /\ Count(calls, "synthesize") <= 1
    /\ Count(calls, "send") <= 1
    /\ Len(spawns) <= 1
    /\ Count(calls, "spawn") <= 1
    /\ (Failed =>
          /\ pc \in {"synthesize_ret", "convert_ret", "done"}
          /\ Len(requests) = Count(calls, "send")
          /\ (pc = "done" =>
                /\ IsSome(outcome)
                /\ ~Unwrap(outcome).ok
                /\ outcome = ret))

\* C14 witness: a run whose one request was answered with a non-success
\* status has returned the error.
C14_Witness ==
    /\ Failed
    /\ Returned
    /\ Len(requests) = 1
    /\ IsSome(response)
    /\ Unwrap(response).kind = "status_error"
    /\ spawns = <<>>

\* A direct convert_audio_format call is running on a pair of formats.
FormatPair == entry = "convert_audio_format"

\* C15 (as claimed): the class of a format can be re-derived from its file
\* extension, that is, two formats with one extension are of one class.
C15_ClassFromExtension ==
    FormatPair =>
        (file_extension(from_format) = file_extension(to_format)
           => is_telephony_format(from_format) = is_telephony_format(to_format))

\* C15 (amended): Gsm maps to "gsm"; Ulaw and Alaw both map to "wav" and
\* stay distinct tags; "wav" is shared by exactly Wav, Ulaw and Alaw, so
\* it is the one extension the class cannot be re-derived from; every
\* other extension belongs to a single format and hence a single class.
C15_ClassFromExtensionExceptWav ==
    FormatPair =>
        /\ (to_format = "Gsm" => file_extension(to_format) = <<"g", "s", "m">>)
        /\ (to_format \in {"Ulaw", "Alaw"} => file_extension(to_format) = <<"w", "a", "v">>)
        /\ (file_extension(to_format) = <<"w", "a", "v">>
              <=> to_format \in {"Wav", "Ulaw", "Alaw"})
        /\ (from_format = "Ulaw" /\ to_format = "Alaw" =>
              /\ from_format # to_format
              /\ Display(from_format) # Display(to_format)
              /\ file_extension(from_format) = file_extension(to_format))
        /\ (file_extension(from_format) = file_extension(to_format)
              /\ file_extension(to_format) # <<"w", "a", "v">>
              => /\ from_format = to_format
                 /\ is_telephony_format(from_format) = is_telephony_format(to_format))

\* C15 witness: a direct call from Ulaw to Alaw, two tags with one
\* extension, has been entered.
C15_Witness ==
    /\ FormatPair
    /\ from_format = "Ulaw"
    /\ to_format = "Alaw"
    /\ "convert_audio_format" \in Range(calls)

\* The formats the running call holds.
FormatsInState == {audio_format, format, google_format, from_format, to_format}

\* One row of the property table agrees with itself.
RowConsistent(f) ==
    /\ telephony_sample_rate(f) \in {8000, 22050}
    /\ (telephony_sample_rate(f) = 8000 <=> is_telephony_format(f))
    /\ (telephony_sample_rate(f) = 22050 <=> ~is_telephony_format(f))
    /\ (supports_direct_playback(f) <=> ~is_telephony_format(f))

\* C16: for every format a call holds (all six occur), the sample rate is
\* 8000 exactly when the format is a telephony format and 22050
\* otherwise, and direct playback is supported exactly when it is not a
\* telephony format.
C16_TableConsistent ==
    /\ FormatsInState \subseteq AudioFormat
    /\ \A f \in FormatsInState : RowConsistent(f)

\* C16 witness: a file run for Gsm has looked its class and the rate of
\* the service format up and sent the request.
C16_Witness ==
    /\ FileRun
    /\ audio_format = "Gsm"
    /\ format = "Gsm"
    /\ google_format = "Wav"
    /\ needs_conversion
    /\ Len(requests) = 1

\* C17: a run with target Mp3 and no destination asks the service for the
\* MP3 encoding, enters no transcoding step, spawns nothing, writes no
\* file, plays the service's bytes as Mp3 as they are, and returns Ok
\* exactly when it has played them: it fails only when the service failed
\* (SynthesisError) or the audio device did (PlaybackError).
C17_Mp3PlayedDirectly ==
    (PlayRun /\ audio_format = "Mp3") =>
        /\ \A i \in 1..Len(requests) : requests[i].audio_encoding = "MP3"
        /\ "convert_audio_format" \notin Range(calls)
        /\ "extract_raw_audio_from_wav" \notin Range(calls)
        /\ "save_audio_file" \notin Range(calls)
        /\ spawns = <<>>
        /\ files = {}
        /\ \A i \in 1..Len(played) :
             /\ played[i].format = "Mp3"
             /\ played[i].data = Unwrap(response).data
        /\ (Returned =>
              /\ Unwrap(outcome).ok <=> Len(played) = 1
              /\ (~Unwrap(outcome).ok =>
                    \/ /\ Unwrap(outcome).kind = "SynthesisError"
                       /\ Unwrap(response).kind # "audio"
                       /\ device_opens = 0
                    \/ /\ Unwrap(outcome).kind = "PlaybackError"
                       /\ Unwrap(response).kind = "audio"
                       /\ device_opens = 1))

\* C17 witness: such a run has played a non-empty buffer and returned Ok.
C17_Witness ==
    /\ PlayRun
    /\ audio_format = "Mp3"
    /\ Returned
    /\ Unwrap(outcome).ok
    /\ Len(played) = 1
    /\ Len(played[1].data) > 0
    /\ Len(requests) = 1

\* The encoding of the samples in the buffer the service delivered: the
\* one the request asked for.
DeliveredEncoding == requests[1].audio_encoding

\* The buffer delivered by the service already carries the samples of the
\* target's encoding.
CarriesTargetEncoding ==
    /\ audio_format_to_google_encoding(format).ok
    /\ DeliveredEncoding = audio_format_to_google_encoding(format).val

\* C18 (as claimed): inside synthesize the transcoder extracts in process
\* only from a buffer that carries the target encoding's samples, and a
\* call for target Gsm is converted by the external utility: when its
\* transcoding stage is over, a subprocess has been spawned.
C18_ExtractionOnlyOfTargetEncoding ==
    /\ (entry = "execute_tts_output" /\ "extract_raw_audio_from_wav" \in Range(calls))
         => CarriesTargetEncoding
    /\ (entry \in {"execute_tts_output", "convert_to_raw_telephony"}
          /\ to_format = "Gsm" /\ pc = "convert_ret")
         => /\ Count(calls, "spawn") = 1
            /\ "extract_raw_audio_from_wav" \notin Range(calls)

\* The HTTP exchange of synthesize did not yield audio.
EngineFailed == IsSome(response) /\ Unwrap(response).kind # "audio"

\* C19: whichever way the exchange fails (the send, a non-success status,
\* a body that does not parse, an audioContent that does not decode),
\* synthesize returns a SynthesisError and goes no further; for a
\* non-success status the message holds the response body as it was read
\* (the text "Unknown error" takes its place when it cannot be read).
C19_EngineFailureIsSynthesisError ==
    EngineFailed =>
        /\ Unwrap(response).kind \in {"send_failed", "status_error", "bad_json", "bad_base64"}
        /\ IsSome(ret)
        /\ ~Unwrap(ret).ok
        /\ Unwrap(ret).kind = "SynthesisError"
        /\ pc \in {"synthesize_ret", "done"}
        /\ "convert_audio_format" \notin Range(calls)
        /\ (Unwrap(response).kind = "status_error" =>
              LET body == Unwrap(response).body
              IN  /\ IsSome(body) => Unwrap(body) \in Range(Unwrap(ret).msg)
                  /\ ~IsSome(body) => "Unknown error" \in Range(Unwrap(ret).msg))

\* C19 witness: synthesize is returning after a non-success status whose
\* body was read.
C19_Witness ==
    /\ EngineFailed
    /\ pc = "synthesize_ret"
    /\ Unwrap(response).kind = "status_error"
    /\ IsSome(Unwrap(response).body)

\* The transcoding stage has been entered: by a direct call, or by
\* synthesize once the service has delivered a buffer.
InTranscoding ==
    \/ entry \in {"convert_audio_format", "convert_to_raw_telephony"}
    \/ /\ entry \in {"execute_tts_output", "synthesize"}
       /\ "convert_audio_format" \in Range(calls)

\* C20: every error the transcoding stage returns (spawn failure, wait
\* failure, nonzero exit, unsupported pair or target, unreadable
\* container, sample extraction failure) is an AudioConversionError, and
\* so is what the direct caller, or the caller of synthesize, receives.
C20_TranscodingErrorKind ==
    (InTranscoding /\ Failed) =>
        /\ Unwrap(ret).kind = "AudioConversionError"
        /\ Unwrap(ret).kind \notin {"SynthesisError", "PlaybackError", "FileError"}
        /\ (pc = "done" =>
              /\ IsSome(outcome)
              /\ ~Unwrap(outcome).ok
              /\ Unwrap(outcome).kind = "AudioConversionError")

\* C20 witness: a direct Wav to Gsm call whose wait for sox failed has
\* returned its error.
C20_Witness ==
    /\ entry = "convert_audio_format"
    /\ from_format = "Wav"
    /\ to_format = "Gsm"
    /\ Failed
    /\ Returned
    /\ Len(spawns) = 1
    /\ IsSome(sox_output)
    /\ Unwrap(sox_output).status = "wait_failed"

\* Nothing has reached an output: no file, no device, no sound.
NoOutput ==
    /\ files = {}
    /\ played = <<>>
    /\ device_opens = 0
    /\ "play_audio" \notin Range(calls)
    /\ "save_audio_file" \notin Range(calls)

\* C21: a call of synthesize, from its entry to its return, opens no
\* audio device, plays nothing, writes no file and calls neither
\* play_audio nor save_audio_file: a direct call ends without any output,
\* and when synthesize returns to speak or to execute_tts_output none has
\* happened yet; play_audio is reached through speak only and
\* save_audio_file through execute_tts_output only.
C21_SynthesizeHasNoOutput ==
    /\ (entry = "synthesize" => NoOutput /\ "speak" \notin Range(calls))
    /\ ("synthesize" \in Range(calls) /\ pc \notin {"save_audio_file", "play_audio", "done"}
          => NoOutput)
    /\ ("play_audio" \in Range(calls) =>
          /\ FirstIndex(calls, "speak") > 0
          /\ FirstIndex(calls, "speak") < FirstIndex(calls, "synthesize")
          /\ FirstIndex(calls, "synthesize") < FirstIndex(calls, "play_audio"))
    /\ ("save_audio_file" \in Range(calls) =>
          /\ FirstIndex(calls, "execute_tts_output") = 1
          /\ FirstIndex(calls, "synthesize") < FirstIndex(calls, "save_audio_file"))

\* C21 witness: a direct synthesize call for Gsm has returned Ok after a
\* request and a sox run.
C21_Witness ==
    /\ entry = "synthesize"
    /\ format = "Gsm"
    /\ Returned
    /\ Unwrap(outcome).ok
    /\ Len(requests) = 1
    /\ Len(spawns) = 1

\* The transcoding call has returned after sox exited and the wait for
\* it succeeded.
PipeReturned == main_pc = "returned" /\ sox_pc = "exited" /\ pipe_result # "WaitErr"

\* C22: whatever part of the input the writer thread delivered, the call
\* returns Ok exactly when sox exited with status zero, and then with all
\* that sox wrote to stdout; an input cut short changes nothing.
C22_WriterFireAndForget ==
    PipeReturned =>
        /\ pipe_result \in {"Ok", "Err"}
        /\ (status = "zero" <=> pipe_result = "Ok")
        /\ (status = "zero" => output_stdout = sox_written)
        /\ wav_left \in 0..wav_size

\* C22 witness: sox stopped reading before the end of the input and exited
\* with status zero; the call returned Ok though part of the input was
\* never delivered.
C22_Witness ==
    /\ PipeReturned
    /\ status = "zero"
    /\ pipe_result = "Ok"
    /\ wav_left > 0
    /\ writer_pc = "finished"
    /\ output_stdout > 0

\* The output selector the claim C23 gives for a target.
SelectorOf(target) ==
    CASE target = "Ulaw" -> "ul"
      [] target = "Alaw" -> "al"
      [] target = "Gsm" -> "gsm"
      [] OTHER -> "none"

\* C23: every subprocess spawned is sox reading a wav from stdin and
\* writing 8000 Hz, 1 channel, with the output selector of the target
\* alone (Ulaw "ul", Alaw "al", Gsm "gsm") whatever the input buffer and
\* the caller; nothing is spawned for a target that is not a telephony
\* format.
C23_FixedSoxParameters ==
    /\ \A i \in 1..Len(spawns) :
         /\ spawns[i].tool = "sox"
         /\ spawns[i].input = "wav"
         /\ spawns[i].rate = 8000
         /\ spawns[i].channels = 1
         /\ spawns[i].output = SelectorOf(to_format)
         /\ spawns[i].output \in {"ul", "al", "gsm"}
    /\ (spawns # <<>> \/ "spawn" \in Range(calls) \/ pc = "spawn")
         => to_format \in {"Ulaw", "Alaw", "Gsm"}

\* C23 witness: a direct call for Alaw on a headerless buffer has spawned
\* sox and returned Ok.
C23_Witness ==
    /\ entry = "convert_to_raw_telephony"
    /\ to_format = "Alaw"
    /\ ~starts_with(audio_data, RIFF)
    /\ Len(audio_data) > 0
    /\ Len(spawns) = 1
    /\ spawns[1].output = "al"
    /\ Returned
    /\ Unwrap(outcome).ok

\* A direct transcoder call took the extraction path; audio_data is the
\* buffer it was given.
Extracted ==
    /\ entry \in {"convert_audio_format", "convert_to_raw_telephony"}
    /\ "extract_raw_audio_from_wav" \in Range(calls)

\* The i-th sample of the container in audio_data, as the signed 8-bit
\* value the reader yields for the stored byte.
SampleValue(i) == audio_data[Len(RIFF) + 1 + i] - 128

FullTable == Collected(Len(ABBREV_DATA))

\* The table is in place and a caller is using it.
TableInUse == IsSome(cell) /\ \E t \in Threads : IsSome(abbrev_map[t])

\* C25: with any number of first calls interleaved, the closure is
\* entered at most once; the cell is empty until the complete table is
\* stored in it, so every caller that got a table got the complete one,
\* the same for all; and a table once stored is never changed.
C25_TableInitializedOnce ==
    /\ [](/\ inits <= 1
          /\ Cardinality({t \in Threads : t_pc[t] \in {"closure", "store"}}) <= 1
          /\ (IsSome(cell) => once = "complete" /\ Unwrap(cell) = FullTable)
          /\ (once = "complete" => IsSome(cell) /\ inits = 1)
          /\ \A t \in Threads :
               /\ t_pc[t] \in {"get", "done"} => IsSome(cell)
               /\ t_pc[t] = "done" => abbrev_map[t] = Some(FullTable)
               /\ IsSome(abbrev_map[t]) => abbrev_map[t] = cell)
    /\ [][IsSome(cell) => cell' = cell]_vars

\* C25 witness: every thread has called and holds the complete table, in
\* which the later entry of the repeated key replaced the earlier one.
C25_Witness ==
    /\ \A t \in Threads : t_pc[t] = "done" /\ abbrev_map[t] = Some(FullTable)
    /\ inits = 1
    /\ Cardinality(FullTable) = 2
    /\ [abbrev |-> "Intl", expansion |-> "Intl."] \in FullTable

\* GoogleTts::speak has been called.
InSpeak == "speak" \in Range(calls)

\* C26: speak calls synthesize first and play_audio after it, and only
\* when synthesize returned Ok; what is played is the buffer synthesize
\* returned; when synthesize fails no audio device is opened, nothing is
\* played, play_audio is not called and speak returns that error.
C26_SpeakSynthesizesThenPlays ==
    InSpeak =>
        /\ (pc \in {"play_audio"} \/ "play_audio" \in Range(calls) =>
              /\ IsSome(ret)
              /\ Unwrap(ret).ok
              /\ audio_data = Unwrap(ret).val
              /\ FirstIndex(calls, "synthesize") > FirstIndex(calls, "speak"))
        /\ ("play_audio" \in Range(calls) =>
              FirstIndex(calls, "synthesize") < FirstIndex(calls, "play_audio"))
        /\ (device_opens > 0 => "play_audio" \in Range(calls))
        /\ \A i \in 1..Len(played) : played[i].data = Unwrap(ret).val
        /\ (Failed =>
              /\ device_opens = 0
              /\ played = <<>>
              /\ "play_audio" \notin Range(calls)
              /\ (pc = "done" => outcome = ret))

\* C26 witness: speak has played the non-empty buffer synthesize
\* returned.
C26_Witness ==
    /\ InSpeak
    /\ Returned
    /\ Len(played) = 1
    /\ played[1].data = Unwrap(ret).val
    /\ Len(Unwrap(ret).val) > 1
    /\ device_opens = 1

\* What a run without a destination does, as a function of what the
\* service answered and of whether the device played; audio_format does
\* not occur in it.
SpokenCalls ==
    <<"execute_tts_output", "speak", "synthesize", "send">>
        \o (IF Unwrap(response).kind = "audio" THEN <<"play_audio">> ELSE <<>>)

SpokenRequest == [audio_encoding |-> "MP3", sample_rate_hertz |-> 22050]

\* C27: without a destination path, what execute_tts_output does and
\* returns is fixed by the service's answer and the audio device alone,
\* for each of the six values of audio_format: the same calls, the same
\* one request (MP3, 22050 Hz), no subprocess, no file, the service's
\* bytes played as Mp3, and Ok, the service's error or the device's error
\* as the result.
C27_FormatIgnoredWithoutPath ==
    (PlayRun /\ Returned) =>
        /\ audio_format \in AudioFormat
        /\ format = "Mp3"
        /\ calls = SpokenCalls
        /\ requests = <<SpokenRequest>>
        /\ spawns = <<>>
        /\ files = {}
        /\ sox_output = None
        /\ IF Unwrap(response).kind # "audio"
           THEN /\ outcome = ret
                /\ Unwrap(outcome).kind = "SynthesisError"
                /\ played = <<>>
                /\ device_opens = 0
           ELSE /\ device_opens = 1
                /\ ret = Some(Ok(Unwrap(response).data))
                /\ \/ /\ outcome = Some(Ok(Unit))
                      /\ played = <<[data |-> Unwrap(response).data, format |-> "Mp3"]>>
                   \/ /\ ~Unwrap(outcome).ok
                      /\ Unwrap(outcome).kind = "PlaybackError"
                      /\ played = <<>>

\* C27 witness: a run without a destination and with audio_format Gsm has
\* played the service's buffer and returned Ok.
C27_Witness ==
    /\ PlayRun
    /\ Returned
    /\ audio_format = "Gsm"
    /\ outcome = Some(Ok(Unit))
    /\ Len(played) = 1
    /\ Len(played[1].data) > 0

\* The message of the encoding lookup's only error.
GsmNotSupported ==
    <<"GSM format not directly supported by Google TTS. Use WAV and convert to GSM.">>

\* C28: in every call of synthesize, for each of the six targets, the
\* format looked up is Wav when the target is a telephony format (Gsm
\* included) and the target otherwise, the lookup succeeds, the request
\* is the next step, and a failure of the call comes after the request
\* was sent and is never the lookup's "GSM format not directly supported"
\* error.
C28_EncodingLookupSucceeds ==
    "synthesize" \in Range(calls) =>
        /\ google_format = (IF format \in {"Ulaw", "Alaw", "Gsm"} THEN "Wav" ELSE format)
        /\ google_format # "Gsm"
        /\ audio_format_to_google_encoding(google_format).ok
        /\ (pc = "send" \/ "send" \in Range(calls))
        /\ (Failed =>
              /\ Len(requests) = 1
              /\ Unwrap(ret).msg # GsmNotSupported)
        /\ \A i \in 1..Len(requests) :
             requests[i].audio_encoding \in {"MP3", "LINEAR16", "OGG_OPUS"}

\* C28 witness: a direct synthesize call for Gsm has sent its request,
\* for LINEAR16.
C28_Witness ==
    /\ entry = "synthesize"
    /\ format = "Gsm"
    /\ google_format = "Wav"
    /\ Len(requests) = 1
    /\ requests[1].audio_encoding = "LINEAR16"

\* A run of the binary's speak_with_google_tts without an output file,
\* for a format that cannot be played, has returned.
UnplayableRunReturned ==
    /\ ws_pc = "done"
    /\ ~IsSome(ws_output_file)
    /\ ws_format \in {"Mulaw", "Alaw"}

\* C29: such a run has sent its one request before anything else; it
\* returns the rejection "Format does not support playback" exactly when
\* the exchange yielded audio, the check of supports_playback then being
\* made after it; when the exchange failed it returns that failure and the
\* check was never made; and in no case is an audio device opened, a
\* buffer played or a file written.
C29_RejectionAfterSynthesis ==
    UnplayableRunReturned =>
        /\ ~supports_playback(ws_format)
        /\ ws_requests = <<google_encoding(ws_format)>>
        /\ IsSome(ws_response)
        /\ ~Unwrap(ws_result).ok
        /\ ws_device_opens = 0
        /\ ws_played = <<>>
        /\ ws_files = {}
        /\ IF Unwrap(ws_response).kind = "audio"
           THEN /\ ws_checked
                /\ Unwrap(ws_result) = BoxError("playback", <<"Format does not support playback">>)
           ELSE /\ ~ws_checked
                /\ Unwrap(ws_result).source \in {"reqwest", "api", "base64"}

\* C29 witness: a Mulaw run without an output file was rejected after the
\* service had delivered a non-empty buffer.
C29_Witness ==
    /\ UnplayableRunReturned
    /\ ws_format = "Mulaw"
    /\ Unwrap(ws_response).kind = "audio"
    /\ Len(ws_audio) > 0
    /\ Unwrap(ws_result).source = "playback"

\* A call of fetch_weather_data has returned after an HTTP exchange that
\* delivered a body.
ExchangeClassified ==
    /\ wx_pc = "done"
    /\ Unwrap(wx_result).kind \notin {"HttpClient", "Request"}

\* The body is a bracketed list of n >= 0 METAR objects.
IsMetarArray(text, n) ==
    /\ Len(text) = (IF n = 0 THEN 2 ELSE 2 * n + 1)
    /\ text[1] = "["
    /\ text[Len(text)] = "]"
    /\ \A i \in 1..n : text[2 * i] \in {"m1", "m2"}
    /\ \A i \in 1..(n - 1) : text[2 * i + 1] = ","

\* C30: after an exchange that delivered a body, exactly one of four
\* outcomes is returned, decided in this order: EmptyResponse for an empty
\* body, without the parser having been called; InvalidJson for a body
\* that is not an array of METAR objects; NoData for the empty array; Ok
\* with the array's first element otherwise.
C30_OutcomeClassification ==
    ExchangeClassified =>
        LET r == Unwrap(wx_result)
            arrays == {n \in 0..MaxBody : IsMetarArray(wx_body, n)}
        IN  /\ r.kind \in {"EmptyResponse", "InvalidJson", "NoData", "Ok"}
            /\ (r.kind = "EmptyResponse" <=> wx_body = <<>>)
            /\ (wx_body = <<>> => wx_parsed = None /\ r.val = wx_icao)
            /\ (wx_body # <<>> => IsSome(wx_parsed))
            /\ (r.kind = "InvalidJson" <=> wx_body # <<>> /\ arrays = {})
            /\ (r.kind = "NoData" <=> arrays = {0})
            /\ (r.kind = "Ok" <=> \E n \in arrays : n > 0)
            /\ (r.kind = "Ok" => r.ok /\ r.val = wx_body[2])
            /\ (r.kind # "Ok" => ~r.ok)

\* C30 witness: the body was an array of two different reports and the
\* first one was returned.
C30_Witness ==
    /\ ExchangeClassified
    /\ wx_body = <<"[", "m2", ",", "m1", "]">>
    /\ Unwrap(wx_result) = WxOk("m2")

=============================================================================
